---------------------------- MODULE Spec2Model ----------------------------
(***************************************************************************)
(* ClimateScope dashboard (src/app.py): the load / clean / feature /       *)
(* extreme-event start-up script and the render_content callback.          *)
(*                                                                         *)
(* A data frame is a record [columns, rows]: the set of column names and   *)
(* the sequence of rows in index order; a row is a function from column    *)
(* name to cell.  A numeric cell is <<v>> (a value) or <<>> (NaN / NaT).    *)
(* Numbers are fixed point: the CSV columns in their own unit, heat_index  *)
(* in 1/100, wind_chill in 1/1000000, a quantile in 1/100 of the column's  *)
(* unit, a mean as the reduced fraction <<numerator, denominator>>.        *)
(* A timestamp is the integer yyyymmddhh, which orders as time does; the   *)
(* last_updated cell is <<t>>, or <<>> for NaT.                            *)
(***************************************************************************)
EXTENDS Integers, Sequences, FiniteSets, TLC

VARIABLES csv, pc, df, temp_thr, wind_thr, extreme_df, query, dff, result

vars == <<csv, pc, df, temp_thr, wind_thr, extreme_df, query, dff, result>>

shared == <<df, temp_thr, wind_thr, extreme_df>>

\* ------------------------------------------------------------------ bounds

\* most rows in the CSV file
MaxRows == 3

\* most rows in the CSV file where every tab and metric is queried
MaxRenderRows == 2

\* ------------------------------------------------------------------- cells

NaN == <<>>

Val(v) == <<v>>

IsNaN(c) == c = <<>>

NoFrame == [columns |-> {}, rows |-> <<>>]

Range(s) == {s[i] : i \in DOMAIN s}

\* the sequences over U of length at most n
SeqUpTo(U, n) == UNION {[1..k -> U] : k \in 0..n}

RECURSIVE SumSeq(_)
SumSeq(s) == IF s = <<>> THEN 0 ELSE Head(s) + SumSeq(Tail(s))

Abs(x) == IF x < 0 THEN 0 - x ELSE x

RECURSIVE Gcd(_, _)
Gcd(a, b) == IF b = 0 THEN a ELSE Gcd(b, a % b)

\* the sorted sequence s with x put in its place
RECURSIVE InsertInt(_, _)
InsertInt(x, s) ==
    IF s = <<>> THEN <<x>>
    ELSE IF x <= Head(s) THEN <<x>> \o s
    ELSE <<Head(s)>> \o InsertInt(x, Tail(s))

\* the numbers of s in ascending order
RECURSIVE SortInts(_)
SortInts(s) ==
    IF s = <<>> THEN <<>> ELSE InsertInt(Head(s), SortInts(Tail(s)))

\* the values of column col that are not NaN, in row order
Present(rows, col) ==
    LET cells == [i \in DOMAIN rows |-> rows[i][col]]
        kept  == SelectSeq(cells, LAMBDA c : ~IsNaN(c))
    IN  [i \in DOMAIN kept |-> kept[i][1]]

\* ---------------------------------------------------------- 1. load & clean

\* str.lower().str.strip() on the header names the file may carry
NormalizeName(n) ==
    CASE n = " Country"             -> "country"
      [] n = "Last_Updated"         -> "last_updated"
      [] n = "Temperature_Celsius " -> "temperature_celsius"
      [] n = "HUMIDITY"             -> "humidity"
      [] OTHER                      -> n

\* the days of month m of 2024
DaysIn(m) ==
    IF m = 2 THEN 29 ELSE IF m \in {4, 6, 9, 11} THEN 30 ELSE 31

\* pd.to_datetime(errors='coerce') of a cell <<y, m, d, h>>; <<>> is an empty cell
to_datetime(s) ==
    IF Len(s) # 4 THEN NaN
    ELSE IF s[2] \notin 1..12 \/ s[3] < 1 \/ s[3] > DaysIn(s[2]) \/ s[4] \notin 0..23
         THEN NaN
    ELSE Val(((s[1] * 100 + s[2]) * 100 + s[3]) * 100 + s[4])

RenameRow(r) ==
    [c \in {NormalizeName(k) : k \in DOMAIN r} |->
        r[CHOOSE k \in DOMAIN r : NormalizeName(k) = c]]

ParseRow(r) == [r EXCEPT !["last_updated"] = to_datetime(r["last_updated"])]

\* mutant: the dropna is left out
KeepAll(r) == TRUE

\* dropna(subset=['last_updated'])
KeepRow(r) == ~IsNaN(r["last_updated"])

LoadClean(file) ==
    LET named  == [i \in DOMAIN file.rows |-> ParseRow(RenameRow(file.rows[i]))]
    IN  [columns |-> {NormalizeName(k) : k \in file.columns},
         rows    |-> SelectSeq(named, KeepRow)]

\* ------------------------------------------------- 2. feature engineering

\* temperature + 0.33 * humidity - 0.7, in 1/100
heat_index(r) ==
    IF IsNaN(r["temperature_celsius"]) \/ IsNaN(r["humidity"]) THEN NaN
    ELSE Val(100 * r["temperature_celsius"][1] + 33 * r["humidity"][1] - 70)

\* w ** 0.16 in 1/10000, rounded; NaN for a negative base (numpy's power)
Pow016(w) ==
    IF w < 0 THEN NaN
    ELSE CASE w = 0  -> Val(0)
           [] w = 1  -> Val(10000)
           [] w = 4  -> Val(12483)
           [] w = 9  -> Val(14213)
           [] w = 20 -> Val(16150)
           [] OTHER  -> Val(16737)

\* 13.12 + 0.6215 * temperature - 11.37 * wind_kph ** 0.16, in 1/1000000
wind_chill(r) ==
    IF IsNaN(r["temperature_celsius"]) \/ IsNaN(r["wind_kph"]) THEN NaN
    ELSE LET p == Pow016(r["wind_kph"][1])
         IN  IF IsNaN(p) THEN NaN
             ELSE Val(13120000 + 621500 * r["temperature_celsius"][1] - 1137 * p[1])

Engineer(r) ==
    r @@ ("heat_index" :> heat_index(r)) @@ ("wind_chill" :> wind_chill(r))

FeatureEngineering(d) ==
    [columns |-> d.columns \cup {"heat_index", "wind_chill"},
     rows    |-> [i \in DOMAIN d.rows |-> Engineer(d.rows[i])]]

METRICS ==
    {"temperature_celsius", "humidity", "precip_mm", "wind_kph",
     "heat_index", "wind_chill"}

\* ------------------------------------------------------- 3. extreme events

\* Series.quantile(0.99): linear interpolation at position 0.99 * (n - 1) of the
\* sorted non-NaN values, in 1/100; NaN when there is none
quantile99(rows, col) ==
    LET s   == SortInts(Present(rows, col))
        n   == Len(s)
        pos == 99 * (n - 1)
        lo  == (pos \div 100) + 1
        fr  == pos % 100
    IN  IF n = 0 THEN NaN
        ELSE IF fr = 0 THEN Val(100 * s[lo])
        ELSE Val(100 * s[lo] + fr * (s[lo + 1] - s[lo]))

\* cell >= threshold; a comparison with NaN on either side is False
GeThr(c, thr) == ~IsNaN(c) /\ ~IsNaN(thr) /\ 100 * c[1] >= thr[1]

IsExtreme(r, tthr, wthr) ==
    GeThr(r["temperature_celsius"], tthr) \/ GeThr(r["wind_kph"], wthr)

ExtremeRows(d, tthr, wthr) ==
    [columns |-> d.columns,
     rows    |-> SelectSeq(d.rows, LAMBDA r : IsExtreme(r, tthr, wthr))]

\* ------------------------------------------------------ 7. render_content

\* str order of the country names the files carry (sorted(), groupby's sort)
CountryOrder == <<"Albania", "Brazil", "Chile">>

CountryRank(c) == CHOOSE i \in DOMAIN CountryOrder : CountryOrder[i] = c

\* df['country'].unique()
unique(d) == {r["country"] : r \in Range(d.rows)}

\* `not countries`: None (<<>>) or the empty list (<<{}>>)
NoSelection(countries) == countries = <<>> \/ countries[1] = {}

Selected(d, countries) ==
    IF NoSelection(countries) THEN unique(d) ELSE countries[1]

\* mutant: the end bound is exclusive
MaskExclusive(r, sel, start_date, end_date) ==
    /\ r["country"] \in sel
    /\ ~IsNaN(r["last_updated"])
    /\ r["last_updated"][1] >= start_date
    /\ r["last_updated"][1] < end_date

\* mutant: the two date bounds are joined by | instead of &
MaskEitherBound(r, sel, start_date, end_date) ==
    /\ r["country"] \in sel
    /\ ~IsNaN(r["last_updated"])
    /\ \/ r["last_updated"][1] >= start_date
       \/ r["last_updated"][1] <= end_date

\* isin(countries) & (last_updated >= start_date) & (last_updated <= end_date);
\* a comparison with NaT is False
Mask(r, sel, start_date, end_date) ==
    /\ r["country"] \in sel
    /\ ~IsNaN(r["last_updated"])
    /\ r["last_updated"][1] >= start_date
    /\ r["last_updated"][1] <= end_date

Filter(d, countries, start_date, end_date) ==
    [columns |-> d.columns,
     rows    |-> SelectSeq(d.rows,
                    LAMBDA r : Mask(r, Selected(d, countries), start_date, end_date))]

\* dt.to_period('M').dt.to_timestamp(): day 1, hour 0 of the month of t
MonthStart(t) == (t \div 10000) * 10000 + 100

GroupKey(r) == <<r["country"], MonthStart(r["last_updated"][1])>>

\* groupby sorts its keys: country first, then month
KeyLe(a, b) ==
    \/ CountryRank(a[1]) < CountryRank(b[1])
    \/ a[1] = b[1] /\ a[2] <= b[2]

\* mutant: 'sum' in place of 'mean'
mean_sum(vals) ==
    IF vals = <<>> THEN NaN ELSE Val(<<SumSeq(vals), 1>>)

RECURSIVE InsertKey(_, _)
InsertKey(k, s) ==
    IF s = <<>> THEN <<k>>
    ELSE IF KeyLe(k, Head(s)) THEN <<k>> \o s
    ELSE <<Head(s)>> \o InsertKey(k, Tail(s))

\* the group keys of S in groupby's order
RECURSIVE SortKeys(_)
SortKeys(S) ==
    IF S = {} THEN <<>>
    ELSE LET k == CHOOSE x \in S : TRUE IN InsertKey(k, SortKeys(S \ {k}))

\* groupby mean: NaN cells are skipped; a group with no value gives NaN
mean(vals) ==
    IF vals = <<>> THEN NaN
    ELSE LET s == SumSeq(vals)
             n == Len(vals)
             g == Gcd(Abs(s), n)
         IN  Val(<<s \div g, n \div g>>)

\* mutant: skipna=False, one NaN cell makes the group's mean NaN
GroupMeanPropagate(rows, metric) ==
    IF \E i \in DOMAIN rows : IsNaN(rows[i][metric]) THEN NaN
    ELSE mean(Present(rows, metric))

\* .agg({metric: 'mean'}) on one group: the mean of its cells that are not NaN
GroupMean(rows, metric) == mean(Present(rows, metric))

\* groupby(['country', 'month'], as_index=False).agg({metric: 'mean'})
\*   .rename(columns={'month': 'last_updated'}); groupby drops a NaT key
Monthly(d, metric) ==
    LET keyed == SelectSeq(d.rows, LAMBDA r : ~IsNaN(r["last_updated"]))
        keys  == SortKeys({GroupKey(r) : r \in Range(keyed)})
        group(k) == SelectSeq(keyed, LAMBDA r : GroupKey(r) = k)
    IN  [columns |-> {"country", "last_updated", metric},
         rows    |-> [i \in DOMAIN keys |->
                        ("country" :> keys[i][1]) @@
                        ("last_updated" :> Val(keys[i][2])) @@
                        (metric :> GroupMean(group(keys[i]), metric))]]

\* the aggregation raises KeyError for a column the frame does not have
AggError(d, metric, time_agg) ==
    IF time_agg = "Monthly" /\ metric \notin d.columns THEN "KeyError" ELSE "none"

Aggregate(d, metric, time_agg) ==
    IF time_agg = "Monthly" THEN Monthly(d, metric) ELSE d

\* what the tab's figures raise on frame v, "none" when they are built
TabError(tab, v, metric) ==
    CASE tab \in {"exec", "trends"} ->
            IF {"last_updated", metric, "country"} \subseteq v.columns
            THEN "none" ELSE "ValueError"
      [] tab = "stats" ->
            IF ~({"temperature_celsius", "humidity", "country"} \subseteq v.columns)
            THEN "ValueError"
            ELSE IF ~(METRICS \subseteq v.columns) THEN "KeyError"
            ELSE "none"
      [] OTHER -> "none"

\* the rows the returned content is built from
TabData(tab, v, ext) ==
    CASE tab \in {"exec", "stats", "trends"} -> v.rows
      [] tab = "extreme" -> ext.rows
      [] OTHER -> <<>>

Execute(d, ext, q) ==
    LET f    == Filter(d, q.countries, q.start_date, q.end_date)
        aerr == AggError(f, q.metric, q.time_agg)
        v    == IF aerr = "none" THEN Aggregate(f, q.metric, q.time_agg) ELSE NoFrame
        terr == IF aerr = "none" THEN TabError(q.tab, v, q.metric) ELSE aerr
    IN  [view   |-> v,
         engine |-> aerr,
         status |-> IF terr = "none" THEN "content" ELSE terr,
         data   |-> IF terr = "none" THEN TabData(q.tab, v, ext) ELSE <<>>]

\* ----------------------------------------------------------------- inputs

\* one line of the CSV file, under the header names the file carries
CsvRow(c, lu, t, h, w) ==
    (" Country" :> c) @@ ("Last_Updated" :> lu) @@
    ("Temperature_Celsius " :> t) @@ ("HUMIDITY" :> h) @@
    ("precip_mm" :> Val(0)) @@ ("wind_kph" :> w) @@ ("pressure_mb" :> Val(1010))

CsvHeader ==
    {" Country", "Last_Updated", "Temperature_Celsius ", "HUMIDITY",
     "precip_mm", "wind_kph", "pressure_mb"}

CsvFiles(U, n) == {[columns |-> CsvHeader, rows |-> rs] : rs \in SeqUpTo(U, n)}

Jan05 == <<2024, 1, 5, 0>>
Jan20Noon == <<2024, 1, 20, 12>>
Feb03 == <<2024, 2, 3, 0>>

T(cell) == to_datetime(cell)[1]

NoQuery ==
    [tab |-> "", countries |-> <<>>, metric |-> "", start_date |-> 0,
     end_date |-> 0, time_agg |-> ""]

NoResult == [status |-> "", data |-> <<>>]

Queries(tabs, selections, metrics, starts, ends, aggs) ==
    [tab : tabs, countries : selections, metric : metrics,
     start_date : starts, end_date : ends, time_agg : aggs]

Tabs == {"exec", "stats", "trends", "extreme", "help"}

Aggs == {"Daily", "Monthly"}

\* --------------------------------------------------------------- actions

InitOver(files) ==
    /\ csv \in files
    /\ pc = "load"
    /\ df = NoFrame
    /\ temp_thr = NaN
    /\ wind_thr = NaN
    /\ extreme_df = NoFrame
    /\ query = NoQuery
    /\ dff = NoFrame
    /\ result = NoResult

\* 1. read_csv, normalise the header, parse last_updated, drop the NaT rows
LoadAndClean ==
    /\ pc = "load"
    /\ df' = LoadClean(csv)
    /\ pc' = "features"
    /\ UNCHANGED <<csv, temp_thr, wind_thr, extreme_df, query, dff, result>>

\* 2. heat_index and wind_chill columns
Features ==
    /\ pc = "features"
    /\ df' = FeatureEngineering(df)
    /\ pc' = "extreme"
    /\ UNCHANGED <<csv, temp_thr, wind_thr, extreme_df, query, dff, result>>

\* 3. thresholds and extreme_df
ExtremeEvents ==
    /\ pc = "extreme"
    /\ temp_thr' = quantile99(df.rows, "temperature_celsius")
    /\ wind_thr' = quantile99(df.rows, "wind_kph")
    /\ extreme_df' = ExtremeRows(df, temp_thr', wind_thr')
    /\ pc' = "serve"
    /\ UNCHANGED <<csv, df, query, dff, result>>

\* the callback's own work: the locals it computes and what it returns
Serve(q) ==
    /\ pc = "serve"
    /\ query' = q
    /\ LET x == Execute(df, extreme_df, q)
       IN  /\ dff' = x.view
           /\ result' = [status |-> x.status, data |-> x.data]
    /\ UNCHANGED <<csv, pc>>

\* mutant: the selection is bound to the module's df (global df)
render_content_rebind(q) ==
    /\ Serve(q)
    /\ df' = Filter(df, q.countries, q.start_date, q.end_date)
    /\ UNCHANGED <<temp_thr, wind_thr, extreme_df>>

\* 7. the callback; it binds only locals, dff being a copy of the selection
render_content(q) ==
    /\ Serve(q)
    /\ UNCHANGED shared

NextOver(Q) ==
    \/ LoadAndClean
    \/ Features
    \/ ExtremeEvents
    \/ \E q \in Q : render_content(q)

\* ------------------------------------------------------- specifications

\* Spec: every tab, every registry metric, a passthrough column, an unknown key
RenderRows ==
    {CsvRow(c, Jan05, Val(20), Val(50), Val(4)) : c \in {"Albania", "Brazil"}}

RenderQueries ==
    Queries(Tabs, {<<>>, <<{"Brazil"}>>}, METRICS \cup {"pressure_mb", "bogus"},
            {T(Jan05)}, {T(Feb03)}, Aggs)

Init == InitOver(CsvFiles(RenderRows, MaxRenderRows))

Next == NextOver(RenderQueries)

Spec == Init /\ [][Next]_vars

\* SpecQuery: the filter, over country selections and date ranges
QueryRows ==
    {CsvRow(c, lu, Val(20), Val(50), Val(4)) :
        c \in {"Albania", "Brazil"}, lu \in {Jan05, Jan20Noon}}

QueryQueries ==
    Queries({"exec"}, {<<>>, <<{}>>, <<{"Brazil"}>>, <<{"Albania", "Brazil"}>>},
            {"temperature_celsius"},
            {T(Jan05), T(Jan20Noon) - 12}, {T(Jan05), T(Jan20Noon) - 12}, Aggs)

InitQuery == InitOver(CsvFiles(QueryRows, MaxRows))

NextQuery == NextOver(QueryQueries)

SpecQuery == InitQuery /\ [][NextQuery]_vars

\* SpecAgg: the monthly mean, over values, negative wind and two months
AggRows ==
    {CsvRow(c, lu, Val(tw[1]), Val(50), Val(tw[2])) :
        c \in {"Albania", "Brazil"}, lu \in {Jan05, Feb03},
        tw \in {<<10, 4>>, <<20, 0 - 5>>}}

AggQueries ==
    Queries({"trends"}, {<<>>}, {"temperature_celsius", "heat_index", "wind_chill"},
            {T(Jan05)}, {T(Feb03)}, Aggs)

InitAgg == InitOver(CsvFiles(AggRows, MaxRows))

NextAgg == NextOver(AggQueries)

SpecAgg == InitAgg /\ [][NextAgg]_vars

\* SpecClean: the cleaning, over empty, unparsable and parsable last_updated cells
CleanRows ==
    {CsvRow("Brazil", lu, Val(20), Val(50), Val(4)) :
        lu \in {<<>>, <<2024, 13, 5, 0>>, <<2024, 2, 30, 0>>, Jan05, Feb03}}

CleanQueries ==
    Queries({"exec", "extreme"}, {<<>>}, {"temperature_celsius"},
            {T(Jan05)}, {T(Feb03)}, Aggs)

InitClean == InitOver(CsvFiles(CleanRows, MaxRows))

NextClean == NextOver(CleanQueries)

SpecClean == InitClean /\ [][NextClean]_vars

\* SpecExtreme: the thresholds, over present and missing temperature and wind
ExtremeCsvRows ==
    {CsvRow("Brazil", Jan05, t, Val(50), w) :
        t \in {NaN, Val(10), Val(20)}, w \in {NaN, Val(4), Val(9)}}

ExtremeQueries ==
    Queries({"extreme", "help"}, {<<>>}, {"wind_kph"}, {T(Jan05)}, {T(Feb03)},
            {"Daily"})

InitExtreme == InitOver(CsvFiles(ExtremeCsvRows, MaxRows))

NextExtreme == NextOver(ExtremeQueries)

SpecExtreme == InitExtreme /\ [][NextExtreme]_vars

\* ----------------------------------------------------------------- claims

\* a render_content call has returned or raised
Served == pc = "serve" /\ query # NoQuery

Count(rows, r) == Cardinality({i \in DOMAIN rows : rows[i] = r})

RECURSIVE SumOver(_, _, _)
SumOver(rows, col, I) ==
    IF I = {} THEN 0
    ELSE LET i == CHOOSE j \in I : TRUE
         IN  rows[i][col][1] + SumOver(rows, col, I \ {i})

\* the query's filter as the specification words it
Wanted(r) ==
    /\ NoSelection(query.countries) \/ r["country"] \in query.countries[1]
    /\ query.start_date <= r["last_updated"][1]
    /\ r["last_updated"][1] <= query.end_date

\* the rows of df, by index, that the query's filter wants
WantedIdx == {i \in DOMAIN df.rows : Wanted(df.rows[i])}

\* C1: in Daily mode the view holds exactly the rows of df whose country is
\* selected (no selection: every country) and whose last_updated lies in
\* [start, end], both bounds inclusive, each as often as df holds it; and no
\* selection gives the view that selecting all the countries present gives.
C1_DailyFilter ==
    Served /\ query.time_agg = "Daily" =>
        /\ result.status = "content"
        /\ \A r \in Range(df.rows) \cup Range(dff.rows) :
              Count(dff.rows, r) = IF Wanted(r) THEN Count(df.rows, r) ELSE 0
        /\ NoSelection(query.countries) =>
              dff = Execute(df, extreme_df,
                            [query EXCEPT !.countries = <<unique(df)>>]).view

\* C1 witness: one country selected, start = end; a row is dropped for its
\* country, a row for its date, and a row on the bound is kept
C1_Witness ==
    /\ Served /\ query.time_agg = "Daily"
    /\ query.countries = <<{"Brazil"}>>
    /\ query.start_date = query.end_date
    /\ \E r \in Range(dff.rows) : r["last_updated"][1] = query.end_date
    /\ \E r \in Range(df.rows) : r["country"] = "Albania"
    /\ \E r \in Range(df.rows) :
          r["country"] = "Brazil" /\ r["last_updated"][1] > query.end_date

\* the cells of the metric that are not NaN in the wanted rows of group <<c, ym>>
GroupIdx(c, ym) ==
    {i \in WantedIdx :
        /\ df.rows[i]["country"] = c
        /\ df.rows[i]["last_updated"][1] \div 10000 = ym
        /\ ~IsNaN(df.rows[i][query.metric])}

WantedGroups ==
    {<<df.rows[i]["country"], df.rows[i]["last_updated"][1] \div 10000>> :
        i \in WantedIdx}

\* C2: in Monthly mode the view has exactly one row for each (country, month)
\* among the filtered rows; its timestamp is day 1, hour 0 of the month and its
\* value is the sum of the group's non-missing metric values over their number
\* (missing when the group has none).
C2_MonthlyMean ==
    Served /\ query.time_agg = "Monthly" /\ query.metric \in METRICS =>
        /\ Len(dff.rows) = Cardinality(WantedGroups)
        /\ \A i, j \in DOMAIN dff.rows :
              dff.rows[i]["country"] = dff.rows[j]["country"]
              /\ dff.rows[i]["last_updated"] = dff.rows[j]["last_updated"] => i = j
        /\ \A r \in Range(dff.rows) :
              LET t  == r["last_updated"][1]
                  I  == GroupIdx(r["country"], t \div 10000)
                  v  == r[query.metric]
              IN  /\ <<r["country"], t \div 10000>> \in WantedGroups
                  /\ t % 10000 = 100
                  /\ IF I = {} THEN IsNaN(v)
                     ELSE /\ ~IsNaN(v)
                          /\ v[1][2] > 0
                          /\ v[1][1] * Cardinality(I) =
                                v[1][2] * SumOver(df.rows, query.metric, I)

\* C2 witness: two rows of one country and month with temperatures 10 and 20
\* give the single row with mean 15
C2_Witness ==
    /\ Served /\ query.time_agg = "Monthly"
    /\ query.metric = "temperature_celsius"
    /\ Len(df.rows) = 2
    /\ df.rows[1]["temperature_celsius"] = Val(10)
    /\ df.rows[2]["temperature_celsius"] = Val(20)
    /\ Len(dff.rows) = 1
    /\ dff.rows[1]["temperature_celsius"] = Val(<<15, 1>>)

RowLe(a, b) ==
    \/ CountryRank(a["country"]) < CountryRank(b["country"])
    \/ a["country"] = b["country"] /\ a["last_updated"][1] <= b["last_updated"][1]

\* C3: in both modes the rows of the view are in (country, timestamp) order
C3_Sorted ==
    Served /\ result.status = "content" =>
        \A i, j \in DOMAIN dff.rows : i < j => RowLe(dff.rows[i], dff.rows[j])

\* C4: a metric key outside the registry never gets content back
C4_InvalidMetric ==
    Served /\ query.metric \notin METRICS => result.status # "content"

\* C5: a query that no row of df matches, one with start after end among them,
\* raises nothing and gives the empty view, in both modes
C5_EmptyView ==
    Served /\ query.metric \in METRICS =>
        /\ query.start_date > query.end_date => WantedIdx = {}
        /\ WantedIdx = {} =>
              /\ dff.rows = <<>>
              /\ result = [status |-> "content", data |-> <<>>]

\* C5 witness: Monthly, start after end, on a file with rows
C5_Witness ==
    /\ Served /\ query.time_agg = "Monthly"
    /\ query.start_date > query.end_date
    /\ Len(df.rows) >= 2
    /\ dff.rows = <<>>
    /\ result.status = "content"

\* C6: a cleaned dataset with a row has an extreme row
C6_ExtremeNonEmpty ==
    pc = "serve" /\ Len(df.rows) >= 1 => Len(extreme_df.rows) >= 1

\* the lines of the file whose last_updated cell parses
Parsable == {i \in DOMAIN csv.rows : ~IsNaN(to_datetime(csv.rows[i]["Last_Updated"]))}

\* C7: cleaning keeps the lines whose last_updated parses, in order, and only
\* them; so every row of df, of the view and of extreme_df has a timestamp
C7_CleanTimestamps ==
    pc # "load" =>
        /\ Len(df.rows) = Cardinality(Parsable)
        /\ \A i \in DOMAIN df.rows :
              LET k == CHOOSE n \in Parsable :
                          Cardinality({m \in Parsable : m <= n}) = i
              IN  /\ df.rows[i]["last_updated"] =
                        to_datetime(csv.rows[k]["Last_Updated"])
                  /\ df.rows[i]["country"] = csv.rows[k][" Country"]
        /\ \A r \in Range(df.rows) \cup Range(dff.rows) \cup Range(extreme_df.rows) :
              ~IsNaN(r["last_updated"])

\* C7 witness: a file with an empty cell, an unparsable cell and a good one,
\* cleaned to the one good row and queried
C7_Witness ==
    /\ Served
    /\ Len(csv.rows) = 3
    /\ csv.rows[1]["Last_Updated"] = <<>>
    /\ csv.rows[2]["Last_Updated"] = <<2024, 2, 30, 0>>
    /\ Len(df.rows) = 1
    /\ Len(dff.rows) = 1

\* C8: whatever calls were made, df, the thresholds and extreme_df are what
\* start-up computed from the file, the view is what the query gives on the
\* start-up df, and the extreme tab shows the start-up extreme_df (with a
\* registry metric it always does)
C8_SharedUnchanged ==
    pc = "serve" =>
        LET d0 == FeatureEngineering(LoadClean(csv))
            t0 == quantile99(d0.rows, "temperature_celsius")
            w0 == quantile99(d0.rows, "wind_kph")
            e0 == ExtremeRows(d0, t0, w0)
        IN  /\ df = d0
            /\ temp_thr = t0
            /\ wind_thr = w0
            /\ extreme_df = e0
            /\ Served => dff = Execute(d0, e0, query).view
            /\ Served /\ query.tab = "extreme" =>
                  /\ result.status = "content" => result.data = e0.rows
                  /\ query.metric \in METRICS => result.status = "content"

\* C8 witness: the extreme tab under a country selection that drops a row,
\* still showing an extreme row of the other country
C8_Witness ==
    /\ Served /\ query.tab = "extreme"
    /\ query.countries = <<{"Brazil"}>>
    /\ \E r \in Range(result.data) : r["country"] = "Albania"

\* C9: a row with negative wind_kph has NaN wind_chill and its heat_index; a
\* row with wind_kph >= 0 has a wind_chill; and a Monthly mean of wind_chill
\* is not NaN when its group has a value
C9_NegativeWind ==
    /\ pc \in {"extreme", "serve"} =>
          \A r \in Range(df.rows) :
             /\ r["wind_kph"][1] < 0 => IsNaN(r["wind_chill"])
             /\ r["wind_kph"][1] >= 0 => ~IsNaN(r["wind_chill"])
             /\ r["heat_index"] =
                   Val(100 * r["temperature_celsius"][1] + 33 * r["humidity"][1] - 70)
    /\ Served /\ query.time_agg = "Monthly" /\ query.metric = "wind_chill" =>
          \A r \in Range(dff.rows) :
             GroupIdx(r["country"], r["last_updated"][1] \div 10000) # {}
                => ~IsNaN(r["wind_chill"])

\* C9 witness: a Monthly wind_chill mean over a group with a negative-wind row
C9_Witness ==
    /\ Served /\ query.time_agg = "Monthly" /\ query.metric = "wind_chill"
    /\ result.status = "content"
    /\ Len(df.rows) = 2
    /\ df.rows[1]["wind_kph"] = Val(0 - 5)
    /\ df.rows[2]["wind_kph"] = Val(4)
    /\ Len(dff.rows) = 1
    /\ ~IsNaN(dff.rows[1]["wind_chill"])

\* C10: with a registry metric every tab in every mode gets content back
C10_NoRaise ==
    Served /\ query.metric \in METRICS => result.status = "content"

===========================================================================
